---- MODULE Spec2Model ----
(***************************************************************************)
(* Model of the Seito vocabulary drill: the Seito session object           *)
(* (src/Seito.py) driven by the SeitoApp event handlers (src/main.py).     *)
(*                                                                         *)
(* Vocabulary of the natural-language specification:                       *)
(*   rangeStart = seito.start          rangeEnd     = seito.difficulty     *)
(*   wordsTotal = seito.word_total     wordsRemaining = seito.word_count   *)
(*   currentIndex = seito.r_num        isComplete   = seito.win            *)
(*   totalAsked = seito.total_q_num    correctCount = seito.correct_ans    *)
(*   incorrectCount = seito.incorrect_ans                                  *)
(*   configure = difficulty_set, submitAnswer = update_question,           *)
(*   reset = restart.                                                      *)
(*                                                                         *)
(* Each handler is one atomic action.  An exception that escapes a handler *)
(* is swallowed by the GUI main loop (tkinter report_callback_exception,   *)
(* PyGObject signal dispatch): the assignments made before the raise stay, *)
(* the rest of the handler is skipped, and the application keeps running.  *)
(* The variable outcome records how the last handler ended.                *)
(*                                                                         *)
(* Environment: the word file does not change while the program runs; the  *)
(* entry boxes start with the tkinter defaults; the Date column of the     *)
(* history and the csv write of update_data are left out.  consumed is a   *)
(* history variable: the rows remove_word popped since the pool was loaded.*)
(***************************************************************************)
EXTENDS Integers, Sequences, FiniteSets, TLC

\* ------------------------------------------------------------------ bounds
\* Largest number of rows of data/split_japanese_words.csv considered.
MaxPool == 2
\* Cap on the number of accepted submissions: a session that starts after k
\* finished sessions accepts MaxAsked - k submissions.
MaxAsked == 3
\* Cap on the number of restarts: restart is taken only while USER_DATA
\* holds at most this many rows.
MaxRestarts == 1
\* Largest number of rows of the word files the construction of the session
\* is followed on: past the default window end, index 10.
MaxRows == 12

\* ------------------------------------------------------- program constants
\* Seito.__init__: self.start = 0
DefaultStart == 0
\* Seito.__init__ and SeitoApp.restart: self.difficulty = 10
DefaultDifficulty == 10
\* Seito.__init__: self.r_num = 1
InitRNum == 1

VARIABLES
    file,             \* data/split_japanese_words.csv as found on disk
    app,              \* "running" | "crashed" (SeitoApp() raised)
    seito,            \* the Seito object
    answer_entry,     \* answer entry is on screen
    confirm_diff_button, \* difficulty entries + confirm button are on screen
    reset_button,     \* reset button is on screen
    difficulty_entry, \* text of the difficulty entry box
    USER_DATA,        \* history table, one record per finished session
    consumed,         \* rows that were the current entry when remove_word popped
    outcome           \* how the last handler ended

vars == <<file, app, seito, answer_entry, confirm_diff_button, reset_button,
          difficulty_entry, USER_DATA, consumed, outcome>>

\* ------------------------------------------------------------- word file
\* Two vocabulary words.  "fire" has no bracketed reading in the source
\* list, so data_modification.py gave it Kana = Japanese.
Water == [English |-> "water", Japanese |-> "mizu-kanji", Kana |-> "mizu"]

Fire == [English |-> "fire", Japanese |-> "hi", Kana |-> "hi"]

\* Row i of a word file whose only "fire" row is row firePos; every other
\* row is "water", so files of two or more rows can hold rows with equal
\* field values.  The field row is the identity of the dict object that
\* to_dict(orient="records") builds for the row.
WordRow(i, firePos) ==
    LET w == IF i = firePos THEN Fire ELSE Water
    IN  [row |-> i, English |-> w.English, Japanese |-> w.Japanese, Kana |-> w.Kana]

\* The states of data/split_japanese_words.csv: missing, or n rows.
Files == { [found |-> FALSE, rows |-> <<>>] } \cup
         { [found |-> TRUE, rows |-> [i \in 1..n |-> WordRow(i, k)]] :
             n \in 0..MaxPool, k \in {2, 3} }

\* Word files one row longer than any window that can be typed, so that a
\* configured window always leaves entries of the pool outside it.
WideFiles == { [found |-> TRUE, rows |-> [i \in 1..n |-> WordRow(i, k)]] :
                 n \in 1..(MaxPool + 1), k \in {2, 3} }

\* Word files of up to MaxRows rows, and the missing file.
LongFiles == { [found |-> FALSE, rows |-> <<>>] } \cup
             { [found |-> TRUE, rows |-> [i \in 1..n |-> WordRow(i, k)]] :
                 n \in 0..MaxRows, k \in {2, 3} }

\* make_data(): the records of the csv file, [] when the file is missing.
make_data(f) == IF f.found THEN f.rows ELSE <<>>

\* ------------------------------------------------------- python helpers
\* list[i] / list.pop(i) accept -len <= i < len; negative i counts from the end.
ValidIndex(data, i) == (-Len(data) <= i) /\ (i < Len(data))

\* 1-based position of python index i
Pos(data, i) == IF i >= 0 THEN i + 1 ELSE Len(data) + i + 1

Item(data, i) == data[Pos(data, i)]

\* list.pop(i): the list without the element at index i
Pop(data, i) ==
    LET p == Pos(data, i)
    IN  [k \in 1..(Len(data) - 1) |-> IF k < p THEN data[k] ELSE data[k + 1]]

\* characters of a decimal numeral
DigitVal(c) ==
    CASE c = "0" -> 0 [] c = "1" -> 1 [] c = "2" -> 2 [] c = "3" -> 3
      [] c = "4" -> 4 [] c = "5" -> 5 [] c = "6" -> 6 [] c = "7" -> 7
      [] c = "8" -> 8 [] c = "9" -> 9 [] OTHER -> -1

RECURSIVE DigitsValue(_)
DigitsValue(t) ==
    IF t = <<>> THEN 0
    ELSE 10 * DigitsValue(SubSeq(t, 1, Len(t) - 1)) + DigitVal(t[Len(t)])

AllDigits(t) == (t # <<>>) /\ (\A k \in 1..Len(t) : DigitVal(t[k]) >= 0)

\* int(text) succeeds: optional sign followed by one or more digits
IsInt(t) ==
    /\ t # <<>>
    /\ IF t[1] \in {"-", "+"} THEN AllDigits(Tail(t)) ELSE AllDigits(t)

\* int(text) for a text with IsInt(text)
int(t) ==
    IF t[1] = "-" THEN 0 - DigitsValue(Tail(t))
    ELSE IF t[1] = "+" THEN DigitsValue(Tail(t))
    ELSE DigitsValue(t)

\* the text a user types for the number n (0 <= n <= 99), as a char sequence
Digit(d) ==
    CASE d = 0 -> "0" [] d = 1 -> "1" [] d = 2 -> "2" [] d = 3 -> "3"
      [] d = 4 -> "4" [] d = 5 -> "5" [] d = 6 -> "6" [] d = 7 -> "7"
      [] d = 8 -> "8" [] OTHER -> "9"

Numeral(n) ==
    IF n < 0 THEN <<"-">> \o (IF -n < 10 THEN <<Digit(-n)>> ELSE <<Digit((-n) \div 10), Digit((-n) % 10)>>)
    ELSE IF n < 10 THEN <<Digit(n)>>
    ELSE <<Digit(n \div 10), Digit(n % 10)>>

\* texts the user may type into the difficulty box (1-based end of the window)
DifficultyTexts == { Numeral(n) : n \in 0..MaxPool } \cup { <<"a">> }

\* texts the user may type into the start box (0-based start of the window)
StartTexts == { Numeral(n) : n \in 0..(MaxPool - 1) } \cup { <<>> }

\* texts the user may type as an answer
AnswerTexts == { Water.Japanese, Water.Kana, Fire.Japanese, Fire.Kana, "wrong" }

\* ------------------------------------------------------------ class Seito
\* mutant of RandintRange: the draw ignores the window end and runs to the
\* end of the pool
RandintRange_to_pool_end(s) == s.start .. (Len(s.data) - 1)

\* mutant of RandintRange: the draw ignores start (randint(0, difficulty))
RandintRange_from_zero(s) == 0 .. s.difficulty

\* random.randint(start, difficulty) draws from the closed interval and
\* raises ValueError when it is empty.
RandintRange(s) == s.start .. s.difficulty

\* Seito.generate_word with the random draw r: r_num is assigned first, the
\* three reads of data[r_num] raise IndexError when r is outside the pool.
generate_word(s, r) ==
    IF ValidIndex(s.data, r)
    THEN [s |-> [s EXCEPT !.r_num = r,
                          !.english = Item(s.data, r).English,
                          !.kanji = Item(s.data, r).Japanese,
                          !.kana = Item(s.data, r).Kana],
          exc |-> "none"]
    ELSE [s |-> [s EXCEPT !.r_num = r], exc |-> "IndexError in generate_word"]

\* mutant of remove_word: removal by value (data.remove(entry)), which
\* deletes the first entry whose fields equal those of the current entry
remove_word_by_value(s) ==
    IF s.word_count > 0
    THEN LET s1 == [s EXCEPT !.word_count = @ - 1, !.difficulty = @ - 1]
         IN  IF ValidIndex(s.data, s.r_num)
             THEN LET cur == Item(s.data, s.r_num)
                      same == {k \in 1..Len(s.data) :
                                 /\ s.data[k].English = cur.English
                                 /\ s.data[k].Japanese = cur.Japanese
                                 /\ s.data[k].Kana = cur.Kana}
                      first == CHOOSE k \in same : \A j \in same : k <= j
                  IN  [s |-> [s1 EXCEPT !.data = Pop(s.data, first - 1)],
                       popped |-> {cur.row},
                       exc |-> "none"]
             ELSE [s |-> s1, popped |-> {}, exc |-> "IndexError in remove_word"]
    ELSE [s |-> [s EXCEPT !.win = TRUE], popped |-> {}, exc |-> "none"]

\* mutant of remove_word: the counter is tested one step early, so the
\* session is declared won while a word is still to be answered
remove_word_early_win(s) ==
    IF s.word_count > 1
    THEN LET s1 == [s EXCEPT !.word_count = @ - 1, !.difficulty = @ - 1]
         IN  IF ValidIndex(s.data, s.r_num)
             THEN [s |-> [s1 EXCEPT !.data = Pop(s.data, s.r_num)],
                   popped |-> {Item(s.data, s.r_num).row},
                   exc |-> "none"]
             ELSE [s |-> s1, popped |-> {}, exc |-> "IndexError in remove_word"]
    ELSE [s |-> [s EXCEPT !.win = TRUE], popped |-> {}, exc |-> "none"]

\* mutant of remove_word: the word is popped without the two decrements
remove_word_pop_only(s) ==
    IF s.word_count > 0
    THEN IF ValidIndex(s.data, s.r_num)
         THEN [s |-> [s EXCEPT !.data = Pop(s.data, s.r_num)],
               popped |-> {Item(s.data, s.r_num).row},
               exc |-> "none"]
         ELSE [s |-> s, popped |-> {}, exc |-> "IndexError in remove_word"]
    ELSE [s |-> [s EXCEPT !.win = TRUE], popped |-> {}, exc |-> "none"]

\* mutant of remove_word: the window end is left alone when a word is popped
remove_word_keeps_difficulty(s) ==
    IF s.word_count > 0
    THEN LET s1 == [s EXCEPT !.word_count = @ - 1]
         IN  IF ValidIndex(s.data, s.r_num)
             THEN [s |-> [s1 EXCEPT !.data = Pop(s.data, s.r_num)],
                   popped |-> {Item(s.data, s.r_num).row},
                   exc |-> "none"]
             ELSE [s |-> s1, popped |-> {}, exc |-> "IndexError in remove_word"]
    ELSE [s |-> [s EXCEPT !.win = TRUE], popped |-> {}, exc |-> "none"]

\* Seito.remove_word: the counters are decremented before data.pop(r_num),
\* so they stay decremented when pop raises IndexError.  popped is the row
\* that was at r_num, the current entry, when pop removed it.
remove_word(s) ==
    IF s.word_count > 0
    THEN LET s1 == [s EXCEPT !.word_count = @ - 1, !.difficulty = @ - 1]
         IN  IF ValidIndex(s.data, s.r_num)
             THEN [s |-> [s1 EXCEPT !.data = Pop(s.data, s.r_num)],
                   popped |-> {Item(s.data, s.r_num).row},
                   exc |-> "none"]
             ELSE [s |-> s1, popped |-> {}, exc |-> "IndexError in remove_word"]
    ELSE [s |-> [s EXCEPT !.win = TRUE], popped |-> {}, exc |-> "none"]

\* mutant of SeitoFields: the default window ends one index earlier
SeitoFields_short_window(data) ==
    [r_num |-> InitRNum, total_q_num |-> 0, correct_ans |-> 0,
     incorrect_ans |-> 0, english |-> "", kanji |-> "", kana |-> "",
     data |-> data, start |-> DefaultStart, difficulty |-> DefaultDifficulty - 1,
     word_total |-> 0, word_count |-> 0, win |-> FALSE]

\* Seito.__init__ up to (not including) the call of generate_word
SeitoFields(data) ==
    [r_num |-> InitRNum, total_q_num |-> 0, correct_ans |-> 0,
     incorrect_ans |-> 0, english |-> "", kanji |-> "", kana |-> "",
     data |-> data, start |-> DefaultStart, difficulty |-> DefaultDifficulty,
     word_total |-> 0, word_count |-> 0, win |-> FALSE]

\* ------------------------------------------------------------ SeitoApp
\* mutant of set_window: word_count starts at the window size instead of
\* one below it
set_window_full_count(s, num_words, num_start) ==
    [s EXCEPT !.start = num_start,
              !.word_total = num_words - num_start + 1,
              !.word_count = num_words - num_start + 1,
              !.difficulty = num_words]

\* difficulty_set: the four assignments made from the parsed numbers
set_window(s, num_words, num_start) ==
    [s EXCEPT !.start = num_start,
              !.word_total = num_words - num_start + 1,
              !.word_count = num_words - num_start,
              !.difficulty = num_words]

\* mutant of count_question: the submission is not counted
count_question_uncounted(s) == s

\* update_question: self.seito.total_q_num += 1
count_question(s) == [s EXCEPT !.total_q_num = @ + 1]

\* update_question: the test  answer in [kanji, kana]
is_correct(s, answer) == answer \in {s.kanji, s.kana}

\* update_question, matching branch: correct_ans += 1; remove_word()
on_correct(s) == remove_word([s EXCEPT !.correct_ans = @ + 1])

\* mutant of on_wrong: the wrongly answered entry is removed from the pool
on_wrong_removes(s) ==
    [s EXCEPT !.incorrect_ans = @ + 1,
              !.data = IF ValidIndex(s.data, s.r_num)
                       THEN Pop(s.data, s.r_num) ELSE @]

\* mutant of on_wrong: the wrong answer is not counted
on_wrong_uncounted(s) == s

\* mutant of on_wrong: a wrong answer also lowers the window end
on_wrong_shrinks_window(s) ==
    [s EXCEPT !.incorrect_ans = @ + 1, !.difficulty = @ - 1]

\* update_question, other branch: incorrect_ans += 1
on_wrong(s) == [s EXCEPT !.incorrect_ans = @ + 1]

\* mutant of restart_fields: the window end is not put back to the default
restart_fields_keep_window(s, fresh) ==
    [s EXCEPT !.win = FALSE, !.total_q_num = 0, !.correct_ans = 0,
              !.incorrect_ans = 0, !.data = fresh]

\* mutant of restart_fields: the mistakes counter is not zeroed
restart_fields_keep_mistakes(s, fresh) ==
    [s EXCEPT !.win = FALSE, !.total_q_num = 0, !.correct_ans = 0,
              !.difficulty = DefaultDifficulty, !.data = fresh]

\* mutant of restart_fields: the shrunk pool is kept
restart_fields_keep_pool(s, fresh) ==
    [s EXCEPT !.win = FALSE, !.total_q_num = 0, !.correct_ans = 0,
              !.incorrect_ans = 0, !.difficulty = DefaultDifficulty]

\* restart: the assignments to the session object, fresh = make_data()
restart_fields(s, fresh) ==
    [s EXCEPT !.win = FALSE, !.total_q_num = 0, !.correct_ans = 0,
              !.incorrect_ans = 0, !.difficulty = DefaultDifficulty,
              !.data = fresh]

\* mutant of Accuracy: the percentage is rounded to the nearest integer
Accuracy_rounded(word_total, total_q_num) ==
    (2 * word_total * 100 + total_q_num) \div (2 * total_q_num)

\* int(word_total / total_q_num * 100): int() truncates toward zero
Accuracy(word_total, total_q_num) ==
    IF word_total >= 0 THEN (word_total * 100) \div total_q_num
    ELSE 0 - (((0 - word_total) * 100) \div total_q_num)

\* SeitoApp.update_data: the row appended to USER_DATA (the Date column,
\* the wall clock, is left out)
SessionRow(s, label) ==
    [Difficulty |-> label,
     Success |-> Accuracy(s.word_total, s.total_q_num),
     Mistakes |-> s.incorrect_ans,
     Total_words |-> s.word_total]

\* SeitoApp.__init__ + setup_tkinter: Seito(make_data()) draws a word from
\* the default window; an IndexError there ends the program.
Construct(files) ==
    /\ file \in files
    /\ \E r \in RandintRange(SeitoFields(make_data(file))) :
          LET g == generate_word(SeitoFields(make_data(file)), r)
          IN  /\ seito = g.s
              /\ app = IF g.exc = "none" THEN "running" ELSE "crashed"
              /\ outcome = IF g.exc = "none" THEN "init" ELSE g.exc
              /\ confirm_diff_button = (g.exc = "none")
    /\ answer_entry = FALSE
    /\ reset_button = FALSE
    /\ difficulty_entry = Numeral(10)
    /\ USER_DATA = <<>>
    /\ consumed = {}

Init == Construct(Files)

\* SeitoApp.difficulty_set after the user typed ds into the difficulty box
\* and ss into the start box (the start box is read nowhere else)
difficulty_set(ds, ss) ==
    /\ app = "running"
    /\ confirm_diff_button
    /\ difficulty_entry' = ds
    /\ UNCHANGED <<file, app, reset_button, USER_DATA, consumed>>
    /\ IF ~(IsInt(ds) /\ IsInt(ss))
       THEN \* except ValueError: show_error(...); return
            /\ outcome' = "show_error"
            /\ UNCHANGED <<seito, answer_entry, confirm_diff_button>>
       ELSE LET s1 == set_window(seito, int(ds) - 1, int(ss))
            IN  IF RandintRange(s1) = {}
                THEN /\ seito' = s1
                     /\ outcome' = "ValueError in generate_word"
                     /\ UNCHANGED <<answer_entry, confirm_diff_button>>
                ELSE \E r \in RandintRange(s1) :
                        LET g == generate_word(s1, r)
                        IN  /\ seito' = g.s
                            /\ IF g.exc = "none"
                               THEN /\ confirm_diff_button' = FALSE
                                    /\ answer_entry' = TRUE
                                    /\ outcome' = "configured"
                               ELSE /\ outcome' = g.exc
                                    /\ UNCHANGED <<answer_entry, confirm_diff_button>>

\* SeitoApp.end_session (with update_data), run at the end of update_question
end_session(s) ==
    /\ answer_entry' = FALSE
    /\ reset_button' = TRUE
    /\ IF s.total_q_num = 0
       THEN /\ outcome' = "ZeroDivisionError in update_data"
            /\ UNCHANGED USER_DATA
       ELSE /\ USER_DATA' = Append(USER_DATA, SessionRow(s, difficulty_entry))
            /\ outcome' = "finished"

\* mutant of redraw: end_session runs after every answer, won or not
redraw_always_ends(s) ==
    IF RandintRange(s) = {}
    THEN /\ seito' = s
         /\ outcome' = "ValueError in generate_word"
         /\ UNCHANGED <<answer_entry, reset_button, USER_DATA>>
    ELSE \E r \in RandintRange(s) :
            LET g == generate_word(s, r)
            IN  /\ seito' = g.s
                /\ IF g.exc # "none"
                   THEN /\ outcome' = g.exc
                        /\ UNCHANGED <<answer_entry, reset_button, USER_DATA>>
                   ELSE end_session(g.s)

\* the tail of update_question from self.seito.generate_word() on
redraw(s) ==
    IF RandintRange(s) = {}
    THEN /\ seito' = s
         /\ outcome' = "ValueError in generate_word"
         /\ UNCHANGED <<answer_entry, reset_button, USER_DATA>>
    ELSE \E r \in RandintRange(s) :
            LET g == generate_word(s, r)
            IN  /\ seito' = g.s
                /\ IF g.exc # "none"
                   THEN /\ outcome' = g.exc
                        /\ UNCHANGED <<answer_entry, reset_button, USER_DATA>>
                   ELSE IF g.s.win
                        THEN end_session(g.s)
                        ELSE /\ outcome' = "answered"
                             /\ UNCHANGED <<answer_entry, reset_button, USER_DATA>>

\* SeitoApp.update_question with the answer entry on screen, from
\* total_q_num += 1 to the end of the handler
handle_answer(answer) ==
    /\ app = "running"
    /\ answer_entry
    /\ UNCHANGED <<file, app, confirm_diff_button, difficulty_entry>>
    /\ LET s1 == count_question(seito)
       IN  IF is_correct(s1, answer)
           THEN LET rm == on_correct(s1)
                IN  /\ consumed' = consumed \cup rm.popped
                    /\ IF rm.exc # "none"
                       THEN /\ seito' = rm.s
                            /\ outcome' = rm.exc
                            /\ UNCHANGED <<answer_entry, reset_button, USER_DATA>>
                       ELSE redraw(rm.s)
           ELSE /\ consumed' = consumed
                /\ redraw(on_wrong(s1))

\* SeitoApp.update_question with the answer entry on screen; the number of
\* submissions explored is capped by MaxAsked
update_question(answer) ==
    /\ seito.total_q_num + Len(USER_DATA) < MaxAsked
    /\ handle_answer(answer)

\* SeitoApp.update_question while the answer entry is not on screen: the
\* handler returns at once
update_question_hidden ==
    /\ app = "running"
    /\ ~answer_entry
    /\ outcome' = "ignored"
    /\ UNCHANGED <<file, app, seito, answer_entry, confirm_diff_button,
                   reset_button, difficulty_entry, USER_DATA, consumed>>

\* SeitoApp.restart (the reset button's command)
restart ==
    /\ app = "running"
    /\ reset_button
    /\ Len(USER_DATA) <= MaxRestarts
    /\ seito' = restart_fields(seito, make_data(file))
    /\ reset_button' = FALSE
    /\ confirm_diff_button' = TRUE
    /\ consumed' = {}
    /\ outcome' = "reset"
    /\ UNCHANGED <<file, app, answer_entry, difficulty_entry, USER_DATA>>

Configure == \E ds \in DifficultyTexts, ss \in StartTexts : difficulty_set(ds, ss)

SubmitAnswer == \E answer \in AnswerTexts : update_question(answer)

Next == Configure \/ SubmitAnswer \/ update_question_hidden \/ restart

Spec == Init /\ [][Next]_vars

\* SeitoApp.__init__ at the call Seito(make_data()): the pool is loaded and
\* Seito.__init__ has assigned its fields, the first draw is still to come
LoadInit ==
    /\ file \in LongFiles
    /\ seito = SeitoFields(make_data(file))
    /\ app = "constructing"
    /\ outcome = "loaded"
    /\ confirm_diff_button = FALSE
    /\ answer_entry = FALSE
    /\ reset_button = FALSE
    /\ difficulty_entry = Numeral(10)
    /\ USER_DATA = <<>>
    /\ consumed = {}

\* Seito.__init__ from self.generate_word() on, then setup_tkinter: an
\* IndexError in the draw ends the program before any window is built
Seito_init ==
    /\ app = "constructing"
    /\ \E r \in RandintRange(seito) :
          LET g == generate_word(seito, r)
          IN  /\ seito' = g.s
              /\ app' = IF g.exc = "none" THEN "running" ELSE "crashed"
              /\ outcome' = IF g.exc = "none" THEN "init" ELSE g.exc
              /\ confirm_diff_button' = (g.exc = "none")
    /\ UNCHANGED <<file, answer_entry, reset_button, difficulty_entry,
                   USER_DATA, consumed>>

\* the construction of the session alone, on word files of up to MaxRows rows
LoadSpec == LoadInit /\ [][Seito_init]_vars

\* the program started on one of the longer word files
WideInit == Construct(WideFiles)

WideSpec == WideInit /\ [][Next]_vars

\* the user types the kanji or kana of the word on screen into the answer
\* entry of a session that is not won yet and presses Return.  Not capped by
\* MaxAsked: a session takes at most word_total correct answers.
CorrectAnswer ==
    /\ ~seito.win
    /\ \E answer \in AnswerTexts :
          /\ is_correct(seito, answer)
          /\ handle_answer(answer)

\* SeitoApp.restart after the first finished session: the fair
\* specification follows the program through one restart
first_restart == Len(USER_DATA) = 1 /\ restart

LiveNext ==
    \/ Configure
    \/ SubmitAnswer
    \/ CorrectAnswer
    \/ update_question_hidden
    \/ first_restart

\* the program with a user who keeps giving the correct answer: an answer
\* session stays open, with the entry focused, until end_session hides it
LiveSpec == Init /\ [][LiveNext]_vars /\ WF_vars(CorrectAnswer)

\* ------------------------------------------------------------ vocabulary
\* the handler outcomes after which r_num holds a fresh draw
DrawOutcomes == {"init", "configured", "answered", "finished",
                 "IndexError in generate_word"}

\* the configured window lies inside the pool
ValidWindow ==
    /\ 0 <= seito.start
    /\ seito.start <= seito.difficulty
    /\ seito.difficulty < Len(seito.data)

\* session states of the specification
Unconfigured == app = "running" /\ confirm_diff_button
Configured == answer_entry \/ reset_button
Complete == seito.win

TypeOK ==
    /\ app \in {"running", "crashed"}
    /\ answer_entry \in BOOLEAN
    /\ confirm_diff_button \in BOOLEAN
    /\ reset_button \in BOOLEAN
    /\ seito.win \in BOOLEAN
    /\ seito.total_q_num \in 0..MaxAsked
    /\ consumed \subseteq 1..MaxPool

\* ---------------------------------------------------------------- claims
\* C1: counter conservation.  In every reachable state total_q_num equals
\* correct_ans + incorrect_ans, and every accepted submission raises
\* total_q_num by exactly 1 and exactly one of correct_ans / incorrect_ans
\* by exactly 1 (the other stays).
C1_SubmitCounts ==
    /\ seito'.total_q_num = seito.total_q_num + 1
    /\ \/ /\ seito'.correct_ans = seito.correct_ans + 1
          /\ seito'.incorrect_ans = seito.incorrect_ans
       \/ /\ seito'.correct_ans = seito.correct_ans
          /\ seito'.incorrect_ans = seito.incorrect_ans + 1

C1_CounterConservation ==
    /\ [](seito.total_q_num = seito.correct_ans + seito.incorrect_ans)
    /\ [][SubmitAnswer => C1_SubmitCounts]_vars

\* C1 witness: a session that has taken both a correct and a wrong answer
C1_Witness ==
    /\ seito.correct_ans >= 1
    /\ seito.incorrect_ans >= 1
    /\ seito.total_q_num >= 2

\* C2: no repeat after correct.  Whenever a handler has drawn a word, the
\* entry now at r_num is none of the entries that were answered correctly
\* and consumed by remove_word since the pool was loaded.
C2_NoRepeatAfterCorrect ==
    (outcome \in {"configured", "answered", "finished"}) =>
        /\ ValidIndex(seito.data, seito.r_num)
        /\ Item(seito.data, seito.r_num).row \notin consumed

\* C2 witness: a word was consumed and a later word has been drawn from a
\* pool that still holds an entry with the same field values
C2_Witness ==
    /\ outcome = "answered"
    /\ consumed # {}
    /\ seito.incorrect_ans >= 1
    /\ \E i \in consumed : make_data(file)[i].Japanese = seito.kanji

\* C3: range contract.  After every handler that drew an index, start <=
\* r_num <= difficulty for the start and difficulty in force at the draw.
C3_RangeContract ==
    (outcome \in DrawOutcomes) =>
        /\ seito.start <= seito.r_num
        /\ seito.r_num <= seito.difficulty

\* C3 witness: draws after a wrong and after a correct answer in a window
\* that does not start at index 0
C3_Witness ==
    /\ outcome = "finished"
    /\ seito.start >= 1
    /\ seito.incorrect_ans >= 1
    /\ seito.correct_ans >= 1

\* C4: completion exactly once.  win turns from FALSE to TRUE only in a
\* submission that is counted correct and arrives with word_count = 0 (the
\* pool and word_count are left as they were); a wrong answer never sets it;
\* once TRUE it stays TRUE until restart clears it.
C4_CompletionOnce ==
    /\ [][(~seito.win /\ seito'.win) =>
             /\ SubmitAnswer
             /\ seito.word_count = 0
             /\ seito'.word_count = 0
             /\ seito'.correct_ans = seito.correct_ans + 1
             /\ seito'.incorrect_ans = seito.incorrect_ans
             /\ seito'.data = seito.data]_vars
    /\ [][(seito.win /\ ~seito'.win) => restart]_vars

\* C4 witness: a session completed although its pool is not empty, after a
\* wrong answer was given
C4_Witness ==
    /\ seito.win
    /\ reset_button
    /\ seito.incorrect_ans >= 1
    /\ seito.data # <<>>

\* every part of the session state a submission or a configure can touch
session == <<seito, answer_entry, confirm_diff_button, reset_button,
             USER_DATA, consumed>>

\* C5: a submission outside the Active state (Unconfigured, or after win
\* became TRUE) changes no session state.  (The claim also wants it
\* reported as a StateError; the handler raises nothing in any state.)
C5_NoMutationOutsideActive ==
    [][((SubmitAnswer \/ update_question_hidden) /\ (Unconfigured \/ Complete))
          => UNCHANGED session]_vars

\* C6: repeat on wrong.  A submission whose text is neither the kanji nor
\* the kana of the current word raises total_q_num and incorrect_ans by 1
\* and leaves correct_ans, the pool, word_count, word_total, start,
\* difficulty and win as they were, so an entry that was at r_num inside
\* the draw window is still at that index inside the window.
C6_RepeatOnWrong ==
    [][\A answer \in AnswerTexts :
          (update_question(answer) /\ ~is_correct(seito, answer)) =>
             /\ seito'.total_q_num = seito.total_q_num + 1
             /\ seito'.incorrect_ans = seito.incorrect_ans + 1
             /\ seito'.correct_ans = seito.correct_ans
             /\ seito'.data = seito.data
             /\ seito'.word_count = seito.word_count
             /\ seito'.word_total = seito.word_total
             /\ seito'.start = seito.start
             /\ seito'.difficulty = seito.difficulty
             /\ seito'.win = seito.win
             /\ consumed' = consumed
             /\ (ValidIndex(seito.data, seito.r_num) /\ seito.r_num \in RandintRange(seito))
                   => /\ seito.r_num \in RandintRange(seito')
                      /\ Item(seito'.data, seito.r_num) = Item(seito.data, seito.r_num)]_vars

\* C6 witness: two words, answered wrong twice and right once; word_count
\* dropped only for the right answer
C6_Witness ==
    /\ outcome = "answered"
    /\ seito.word_total = 2
    /\ seito.incorrect_ans = 2
    /\ seito.correct_ans = 1
    /\ seito.word_count = 0
    /\ Len(seito.data) = Len(make_data(file)) - 1

\* C7: in a session configured with a window inside the pool, with
\* N = word_total (the configured window size: the current window size plus
\* the words consumed so far): while the session is not won, correct_ans = k < N and
\* word_count = N - 1 - k; once it is won, correct_ans = N.  So win is
\* reached on exactly the N-th correct answer, however many wrong answers
\* are interleaved.
C7_CompleteOnNthCorrect ==
    (Configured /\ ValidWindow) =>
        /\ seito.word_total >= 1
        /\ seito.word_total = (seito.difficulty - seito.start + 1) + (seito.word_total - 1 - seito.word_count)
        /\ ~seito.win => /\ seito.correct_ans < seito.word_total
                         /\ seito.word_count = seito.word_total - 1 - seito.correct_ans
        /\ seito.win => seito.correct_ans = seito.word_total

\* C7 witness: a two-word session completed with a wrong answer in between
C7_Witness ==
    /\ ValidWindow
    /\ reset_button
    /\ seito.win
    /\ seito.word_total = 2
    /\ seito.correct_ans = 2
    /\ seito.incorrect_ans = 1

\* C8: right after every successful difficulty_set: word_total = difficulty
\* - start + 1, word_count = word_total - 1, the three counters are 0, win
\* is FALSE, and the current word is the pool entry at an index drawn from
\* [start, difficulty].
C8_AfterConfigure ==
    (outcome = "configured") =>
        /\ seito.word_total = seito.difficulty - seito.start + 1
        /\ seito.word_count = seito.word_total - 1
        /\ seito.total_q_num = 0
        /\ seito.correct_ans = 0
        /\ seito.incorrect_ans = 0
        /\ ~seito.win
        /\ seito.r_num \in RandintRange(seito)
        /\ ValidIndex(seito.data, seito.r_num)
        /\ seito.english = Item(seito.data, seito.r_num).English
        /\ seito.kanji = Item(seito.data, seito.r_num).Japanese
        /\ seito.kana = Item(seito.data, seito.r_num).Kana

\* C8 witness: a configure that follows a finished session with mistakes
\* and a restart
C8_Witness ==
    /\ outcome = "configured"
    /\ Len(USER_DATA) >= 1
    /\ USER_DATA[1].Mistakes >= 1

\* the bounds typed into the two boxes are invalid: not numbers, end below
\* start, or end beyond the last pool index
InvalidBounds(ds, ss) ==
    \/ ~IsInt(ds)
    \/ ~IsInt(ss)
    \/ int(ds) - 1 < int(ss)
    \/ int(ds) - 1 >= Len(seito.data)

\* C9: a difficulty_set with invalid bounds fails and leaves the session
\* state as it was.
C9_InvalidConfigureNoMutation ==
    [][\A ds \in DifficultyTexts, ss \in StartTexts :
          (InvalidBounds(ds, ss) /\ difficulty_set(ds, ss)) =>
             /\ outcome' # "configured"
             /\ UNCHANGED session]_vars

\* C10: right after restart the pool is the full freshly loaded pool (the
\* rows of the word file, as at construction), win is FALSE and the three
\* counters are 0.
C10_AfterRestart ==
    (outcome = "reset") =>
        /\ seito.data = make_data(file)
        /\ Len(seito.data) = Len(make_data(file))
        /\ ~seito.win
        /\ seito.total_q_num = 0
        /\ seito.correct_ans = 0
        /\ seito.incorrect_ans = 0

\* C10 witness: a restart after a two-word session that consumed a word and
\* took a wrong answer
C10_Witness ==
    /\ outcome = "reset"
    /\ Len(USER_DATA) = 1
    /\ USER_DATA[1].Total_words = 2
    /\ USER_DATA[1].Mistakes = 1
    /\ Len(seito.data) = 2

\* C11 as claimed: after every restart the window is start = 0,
\* difficulty = 9.
C11_ResetWindowZeroNine ==
    (outcome = "reset") => (seito.start = 0 /\ seito.difficulty = 9)

\* C11 as amended: restart puts difficulty back to the construction default
\* 10 and does not assign start, which keeps the value the finished session
\* was configured with.
C11_ResetWindow ==
    [][restart => /\ seito'.difficulty = DefaultDifficulty
                  /\ seito'.start = seito.start]_vars

\* C11 witness: a restart after a session whose window started at index 1
C11_Witness ==
    /\ outcome = "reset"
    /\ seito.start = 1
    /\ seito.difficulty = 10

\* the session state of the specification's state machine
Phase ==
    IF confirm_diff_button THEN "Unconfigured"
    ELSE IF seito.win THEN "Complete"
    ELSE "Active"

\* C12: the session moves only along Unconfigured -> Active -> Complete ->
\* Unconfigured: configure is taken only in Unconfigured and is the only way
\* into Active, a submission is the only way into Complete, restart is taken
\* only in Complete and is the only way back to Unconfigured.
C12_ThreeStateCycle ==
    [][/\ Configure => Phase = "Unconfigured"
       /\ restart => Phase = "Complete"
       /\ (Phase' # Phase) =>
             \/ Phase = "Unconfigured" /\ Phase' = "Active" /\ Configure
             \/ Phase = "Active" /\ Phase' = "Complete" /\ SubmitAnswer
             \/ Phase = "Complete" /\ Phase' = "Unconfigured" /\ restart]_vars

\* C12 witness: a second session is under way after a full turn of the cycle
C12_Witness ==
    /\ Phase = "Active"
    /\ Len(USER_DATA) = 1
    /\ seito.total_q_num >= 1

\* C13: one row is appended to the history on every step on which win turns
\* true, carrying the mistakes and the word total of that moment, and on no
\* other step does the history change.
C13_OneRecordPerCompletion ==
    [][IF ~seito.win /\ seito'.win
       THEN /\ Len(USER_DATA') = Len(USER_DATA) + 1
            /\ SubSeq(USER_DATA', 1, Len(USER_DATA)) = USER_DATA
            /\ USER_DATA'[Len(USER_DATA')].Mistakes = seito'.incorrect_ans
            /\ USER_DATA'[Len(USER_DATA')].Total_words = seito'.word_total
       ELSE USER_DATA' = USER_DATA]_vars

\* Python's round(word_total / total_q_num * 100): nearest integer, a tie
\* going to the even neighbour
RoundPercent(word_total, total_q_num) ==
    LET q == (word_total * 100) \div total_q_num
        twice == 2 * ((word_total * 100) % total_q_num)
    IN  IF twice > total_q_num \/ (twice = total_q_num /\ q % 2 = 1)
        THEN q + 1
        ELSE q

C16_WindowBoundsKept ==
    [][SubmitAnswer => /\ seito'.start = seito.start
                       /\ seito'.difficulty = seito.difficulty]_vars

\* C16 as amended: a submission never changes start; difficulty goes down by
\* 1 together with word_count on every correct answer given while
\* word_count > 0 and stays on every other submission, so that
\* difficulty - start = word_count throughout a configured session.
C16_WindowEndFollowsCount ==
    /\ [](Configured => seito.difficulty - seito.start = seito.word_count)
    /\ [][SubmitAnswer =>
            /\ seito'.start = seito.start
            /\ IF seito'.correct_ans > seito.correct_ans /\ seito.word_count > 0
               THEN /\ seito'.difficulty = seito.difficulty - 1
                    /\ seito'.word_count = seito.word_count - 1
               ELSE /\ seito'.difficulty = seito.difficulty
                    /\ seito'.word_count = seito.word_count]_vars

\* C16 witness: a two-word window 0..1 after its first word was consumed
C16_Witness ==
    /\ answer_entry
    /\ seito.word_total = 2
    /\ seito.correct_ans = 1
    /\ seito.start = 0
    /\ seito.difficulty = 0
    /\ Len(seito.data) = 1

\* C17: the correct answer that arrives with word_count = 0 sets win and
\* leaves the pool and word_count as they were, and in every state with win
\* set the pool is word_total - 1 entries shorter than the freshly loaded one
\* and still holds the word answered last at r_num.
C17_CompletionKeepsLastWord ==
    /\ [][(SubmitAnswer /\ seito'.correct_ans > seito.correct_ans
                        /\ seito.word_count = 0) =>
            /\ seito'.win
            /\ seito'.data = seito.data
            /\ seito'.word_count = seito.word_count]_vars
    /\ [](seito.win =>
            /\ Len(seito.data) = Len(make_data(file)) - (seito.word_total - 1)
            /\ ValidIndex(seito.data, seito.r_num)
            /\ Item(seito.data, seito.r_num).Japanese = seito.kanji)

\* C18: a correct answer given while word_count > 0 lowers word_count by 1
\* and removes from the pool exactly the entry at r_num: the pool is one
\* shorter, entries before r_num keep their index and entries after it move
\* down by one.
C18_RemoveAtIndex ==
    [][(SubmitAnswer /\ seito'.correct_ans > seito.correct_ans
                     /\ seito.word_count > 0) =>
            /\ seito'.word_count = seito.word_count - 1
            /\ ValidIndex(seito.data, seito.r_num)
            /\ Len(seito'.data) = Len(seito.data) - 1
            /\ \A i \in 1..Len(seito'.data) :
                  seito'.data[i] = IF i < Pos(seito.data, seito.r_num)
                                   THEN seito.data[i]
                                   ELSE seito.data[i + 1]]_vars

\* C19: on the submission that sets win no new word is drawn: r_num and the
\* cached word stay those of the word just answered and no draw fails.
C19_NoRedrawOnCompletion ==
    [][(SubmitAnswer /\ ~seito.win /\ seito'.win) =>
            /\ seito'.r_num = seito.r_num
            /\ seito'.kanji = seito.kanji
            /\ seito'.english = seito.english
            /\ seito'.kana = seito.kana
            /\ outcome' # "IndexError in generate_word"]_vars

\* C20: word_total / total_q_num is evaluated only by end_session, that is on
\* the step on which win turns true, and there total_q_num >= correct_ans
\* >= 1, so the division never fails.
C20_DivisorPositive ==
    /\ [](outcome # "ZeroDivisionError in update_data")
    /\ [][(USER_DATA' # USER_DATA \/ (reset_button' /\ ~reset_button)) =>
            /\ SubmitAnswer
            /\ ~seito.win
            /\ seito'.win
            /\ seito'.total_q_num >= seito'.correct_ans
            /\ seito'.correct_ans >= 1]_vars

\* C20 witness: a one-word session finished by its first submission, the
\* smallest divisor a finished session can have
C20_Witness ==
    /\ outcome = "finished"
    /\ seito.total_q_num = 1
    /\ seito.correct_ans = 1
    /\ Len(USER_DATA) = 1

\* C15: under weak fairness of the correct-answer step, a session that is on
\* screen with its window inside the pool and not yet won eventually is won
\* and ended (end_session has run: the reset button is shown and the row is
\* written), whatever wrong answers are given in between.
C15_EventuallyComplete ==
    (answer_entry /\ ValidWindow /\ ~seito.win)
        ~> (Complete /\ reset_button /\ outcome = "finished")

\* C15 witness: a two-word session that took a wrong answer on the way and
\* was completed
C15_Witness ==
    /\ Complete
    /\ reset_button
    /\ outcome = "finished"
    /\ seito.word_total = 2
    /\ seito.incorrect_ans >= 1
    /\ ValidWindow

\* C21: word_count is never negative, in any state reachable by configure
\* attempts (accepted or failed), submissions and restarts.
C21_WordCountNonNegative == seito.word_count >= 0

\* the session on screen was configured with a window inside the freshly
\* loaded pool: difficulty_set leaves start and word_total as typed, and the
\* window end it assigned was start + word_total - 1
ValidlyConfigured ==
    /\ Configured
    /\ 0 <= seito.start
    /\ 1 <= seito.word_total
    /\ seito.start + seito.word_total - 1 < Len(make_data(file))

\* the rows that were at pool indices start..difficulty when the session on
\* screen was configured
ConfiguredWindow ==
    { make_data(file)[i + 1].row :
        i \in seito.start .. (seito.start + seito.word_total - 1) }

\* C22: in a validly configured session the current word is always an entry
\* that was inside the configured window at configure time: r_num indexes
\* the pool, the entry there is one of the window's rows, and it is the word
\* on screen.
C22_CurrentWordInWindow ==
    ValidlyConfigured =>
        /\ ValidIndex(seito.data, seito.r_num)
        /\ Item(seito.data, seito.r_num).row \in ConfiguredWindow
        /\ Item(seito.data, seito.r_num).Japanese = seito.kanji
        /\ Item(seito.data, seito.r_num).Kana = seito.kana

\* C22 witness: a window of two words in a pool of three after one word was
\* consumed, so that the entry from outside the window has moved down to an
\* index the window covered at configure time
C22_Witness ==
    /\ ValidlyConfigured
    /\ answer_entry
    /\ seito.word_total = 2
    /\ seito.start = 0
    /\ seito.correct_ans = 1
    /\ Len(seito.data) = 2
    /\ seito.data[2].row = 3

\* C23: in every state of a validly configured session, not won or won,
\* difficulty - start = word_count, start <= difficulty and
\* difficulty < len(data), and no draw after configure has raised.
C23_WindowInsidePool ==
    ValidlyConfigured =>
        /\ seito.difficulty - seito.start = seito.word_count
        /\ seito.start <= seito.difficulty
        /\ seito.difficulty < Len(seito.data)
        /\ RandintRange(seito) # {}
        /\ \A r \in RandintRange(seito) : ValidIndex(seito.data, r)
        /\ outcome \in {"configured", "answered", "finished", "ignored"}

\* C23 witness: the last word of a two-word window over a pool of two is on
\* screen: window and pool have both shrunk to the single index 0
C23_Witness ==
    /\ ValidlyConfigured
    /\ answer_entry
    /\ seito.start = 0
    /\ seito.word_total = 2
    /\ seito.word_count = 0
    /\ seito.difficulty = 0
    /\ Len(seito.data) = 1
    /\ outcome = "answered"

\* C24: in every state with a session on screen that is not won,
\* word_count + correct_ans = word_total - 1 and the pool is correct_ans
\* entries shorter than the freshly loaded pool; a wrong answer changes none
\* of word_count, correct_ans, word_total and the pool.
C24_ActiveCounters ==
    /\ []((answer_entry /\ ~seito.win) =>
            /\ seito.word_count + seito.correct_ans = seito.word_total - 1
            /\ Len(seito.data) = Len(make_data(file)) - seito.correct_ans)
    /\ [][(SubmitAnswer /\ seito'.incorrect_ans > seito.incorrect_ans) =>
            /\ seito'.word_count = seito.word_count
            /\ seito'.correct_ans = seito.correct_ans
            /\ seito'.word_total = seito.word_total
            /\ seito'.data = seito.data]_vars

\* C25: construction draws an index from the default window 0..10 before
\* any configure and fails exactly when that index is past the end of the
\* pool; the failure is possible exactly for pools of fewer than 11 entries,
\* and with the empty pool, which is what a missing word file loads as, no
\* draw succeeds.
C25_ConstructionDraw ==
    /\ [][Seito_init =>
            /\ seito'.r_num \in DefaultStart..DefaultDifficulty
            /\ (app' = "crashed") <=> (seito'.r_num >= Len(seito.data))
            /\ (app' = "crashed") => (outcome' = "IndexError in generate_word")]_vars
    /\ [](app = "constructing" =>
            /\ (ENABLED (Seito_init /\ app' = "crashed"))
                  <=> (Len(seito.data) < DefaultDifficulty + 1)
            /\ (Len(seito.data) = 0) => ~ENABLED (Seito_init /\ app' = "running")
            /\ ~file.found => Len(seito.data) = 0)

\* C25 witness: construction failed on a pool of 10 entries, the longest
\* pool the default window can overrun, with the draw at index 10
C25_Witness ==
    /\ app = "crashed"
    /\ outcome = "IndexError in generate_word"
    /\ Len(seito.data) = 10
    /\ seito.r_num = 10

====
